---- MODULE Spec2Model ----
(***************************************************************************)
(* A model of dmq.Executor (src/dmq/__init__.py): the batched, recursive   *)
(* resolution of a query into composed records.  The executor's call stack *)
(* is explicit (one frame per running _add_fields), the supplied fetchers  *)
(* are the environment: each fetcher call is a step that may return any    *)
(* value of a bounded family or raise.                                     *)
(***************************************************************************)
EXTENDS Integers, Sequences, FiniteSets, TLC

VARIABLES
    root_fetchers,   \* Executor._root_fetchers
    field_fetchers,  \* Executor._field_fetchers
    fetched,         \* the query argument of the running fetch
    pc,              \* where the running fetch is: idle, root_call, add_fields, field_call, done
    stack,           \* the frames of the running _add_fields calls, innermost last
    calls,           \* every fetcher invocation so far, in order, with what it returned
    outcome,         \* how fetch ended: nothing yet, a returned list, or a raised error
    fl_pc,           \* flatten/unflatten harness: position
    fl_S,            \* flatten/unflatten harness: the nested structure (cores)
    fl_R,            \* flatten/unflatten harness: the replacement sequence
    fl_flat,         \* flatten/unflatten harness: flatten(fl_S)
    fl_out,          \* flatten/unflatten harness: result of the last unflatten
    past             \* the fetches this executor has finished: query, calls, outcome

vars == <<root_fetchers, field_fetchers, fetched, pc, stack, calls, outcome,
          fl_pc, fl_S, fl_R, fl_flat, fl_out, past>>

exec_vars == <<root_fetchers, field_fetchers, fetched, pc, stack, calls, outcome>>
flat_vars == <<fl_pc, fl_S, fl_R, fl_flat, fl_out>>

\* ---------------------------------------------------------------- bounds

\* ids of records run over 1..MaxId
MaxId == 2

\* longest list a fetcher returns (the root batch, and each list-valued field value)
MaxLen == 2

\* most _add_fields calls nested in one another: the interpreter's recursion
\* limit, scaled down
MaxDepth == 4

\* most nodes (lists and leaves below the outer list) of the structures that
\* flatten and unflatten are applied to on their own
MaxNodes == 5

\* ---------------------------------------------------------------- values

\* Python values, tagged by what isinstance() can tell apart.
Scalar(n) == [tag |-> "scalar", val |-> n]

\* a dataclass instance: its class and its attribute values by name
Rec(type, vals) == [tag |-> "rec", type |-> type, vals |-> vals]

\* a Python list
List(items) == [tag |-> "list", items |-> items]

\* a Python dict
Dict(vals) == [tag |-> "dict", vals |-> vals]

\* isinstance(value, list)
IsList(value) == value.tag = "list"

\* dataclasses.is_dataclass(value), for an instance
IsDataclass(value) == value.tag = "rec"

EmptyDict == [n \in {} |-> n]

\* d[name] = value on a dict
DictSet(d, name, value) ==
    [n \in (DOMAIN d) \cup {name} |-> IF n = name THEN value ELSE d[n]]

\* ---------------------------------------------------------------- queries and result types

\* field.metadata.get("query") of a plain attribute
NoQuery == [variant |-> "None", result_type |-> "None"]

\* a query object: its class (variant) and its result_type
Query(variant, result_type) == [variant |-> variant, result_type |-> result_type]

\* the classes of a query variant, itself first (its __mro__): DraftPostQuery
\* subclasses PostQuery
Mro(variant) ==
    IF variant = "DraftPostQuery" THEN {"DraftPostQuery", "PostQuery"} ELSE {variant}

\* isinstance(query, from_type)
IsInstance(query, from_type) == from_type \in Mro(query.variant)

\* a plain attribute of a dataclass
Attr(name) == [name |-> name, query |-> NoQuery]

\* dmq.field(query)
field(name, query) == [name |-> name, query |-> query]

\* dataclasses.fields(type): base class attributes first, then the declared fields
Fields(type) ==
    CASE type = "Post" -> <<Attr("id"), Attr("owner")>>
      [] type = "PostWithComments" ->
            <<Attr("id"), Attr("owner"),
              field("comments", Query("CommentQuery", "Comment"))>>
      [] type = "PostWithAuthoredComments" ->
            <<Attr("id"), Attr("owner"),
              field("comments", Query("CommentQuery", "CommentWithAuthor"))>>
      [] type = "Comment" -> <<Attr("id")>>
      [] type = "CommentWithAuthor" ->
            <<Attr("id"), field("author", Query("UserQuery", "User"))>>
      [] type = "User" -> <<Attr("id")>>
      [] type = "Owner" -> <<Attr("name")>>
      [] type = "PostWithCount" ->
            <<Attr("id"), Attr("owner"),
              field("comment_count", Query("CountQuery", "int"))>>
      [] type = "PostWithTally" ->
            <<Attr("id"), Attr("owner"),
              field("comment_count", Query("CountQuery", "Count"))>>
      [] type = "PostWithAuthor" ->
            <<Attr("id"), Attr("owner"),
              field("author", Query("UserQuery", "User"))>>
      [] type = "Count" -> <<Attr("id")>>
      [] type = "PostWithThread" ->
            <<Attr("id"), Attr("owner"),
              field("comments", Query("CommentQuery", "CommentWithReplies"))>>
      [] type = "CommentWithReplies" ->
            <<Attr("id"), field("replies", Query("CommentQuery", "CommentWithReplies"))>>
      [] type = "PostFull" ->
            <<Attr("id"), Attr("owner"),
              field("comments", Query("CommentQuery", "CommentWithAuthor")),
              field("author", Query("UserQuery", "User"))>>
      [] type = "PostFullSwapped" ->
            <<Attr("id"), Attr("owner"),
              field("author", Query("UserQuery", "User")),
              field("comments", Query("CommentQuery", "CommentWithAuthor"))>>
      [] OTHER -> <<>>

\* whether dataclasses.fields(type) accepts the type: int is no dataclass
IsDataclassType(type) == type # "int"

FieldNames(type) == {Fields(type)[i].name : i \in 1..Len(Fields(type))}

HasQuery(f) == f.query # NoQuery

\* the declared fields taken from the last to the first
DeclaredFieldsReversed(type) ==
    LET fs == SelectSeq(Fields(type), HasQuery)
    IN  [i \in 1..Len(fs) |-> fs[Len(fs) + 1 - i]]

\* the fields _add_fields resolves: those whose metadata holds a query, in order
DeclaredFields(type) == SelectSeq(Fields(type), HasQuery)

\* the plain attributes of a type
CoreNames(type) ==
    {Fields(type)[i].name : i \in {j \in 1..Len(Fields(type)) : ~HasQuery(Fields(type)[j])}}

\* ---------------------------------------------------------------- flatten / unflatten

\* flatten without its recursion: the elements of the outer list
flatten_shallow(value) == IF IsList(value) THEN value.items ELSE <<value>>

\* an empty list taken for a leaf
RECURSIVE flatten_empty_leaf(_)
flatten_empty_leaf(value) ==
    IF IsList(value) /\ value.items # <<>>
    THEN flatten_empty_leaf(Head(value.items))
         \o (IF Tail(value.items) = <<>>
             THEN <<>>
             ELSE flatten_empty_leaf(List(Tail(value.items))))
    ELSE <<value>>

\* the leaves collected from the last element to the first
RECURSIVE flatten_reversed(_)
flatten_reversed(value) ==
    IF IsList(value)
    THEN IF value.items = <<>>
         THEN <<>>
         ELSE flatten_reversed(List(Tail(value.items))) \o flatten_reversed(Head(value.items))
    ELSE <<value>>

\* flatten(cores) of _fetch_field: the leaves of a nested list, depth first
RECURSIVE flatten(_)
flatten(value) ==
    IF IsList(value)
    THEN IF value.items = <<>>
         THEN <<>>
         ELSE flatten(Head(value.items)) \o flatten(List(Tail(value.items)))
    ELSE <<value>>

\* raised by next(results_iter) on an exhausted iterator
StopIteration == [type |-> "StopIteration", args |-> <<>>]

\* f(value) of unflatten, with the iterator made explicit: `rest` is what
\* results_iter has not yielded yet.  Yields the rebuilt value and the rest,
\* or raised = TRUE when next() finds the iterator exhausted.
RECURSIVE unflatten_f(_, _)
unflatten_f(value, rest) ==
    IF IsList(value)
    THEN IF value.items = <<>>
         THEN [raised |-> FALSE, value |-> List(<<>>), rest |-> rest]
         ELSE LET h == unflatten_f(Head(value.items), rest)
              IN  IF h.raised
                  THEN h
                  ELSE LET t == unflatten_f(List(Tail(value.items)), h.rest)
                       IN  IF t.raised
                           THEN t
                           ELSE [raised |-> FALSE,
                                 value |-> List(<<h.value>> \o t.value.items),
                                 rest |-> t.rest]
    ELSE IF rest = <<>>
         THEN [raised |-> TRUE, value |-> List(<<>>), rest |-> rest]
         ELSE [raised |-> FALSE, value |-> Head(rest), rest |-> Tail(rest)]

\* unflatten left out: the flat results are handed back as they are
unflatten_flat(cores, results) ==
    [raised |-> FALSE, value |-> List(results), rest |-> <<>>]

\* unflatten(results) of _fetch_field, against the raw values `cores`
unflatten(cores, results) == unflatten_f(cores, results)

\* ---------------------------------------------------------------- composing records

\* what dataclasses.asdict does to an attribute value: a dataclass instance
\* becomes a dict of its converted attributes, a list a list of converted
\* elements, anything else a copy of itself
RECURSIVE asdict_inner(_)
asdict_inner(value) ==
    CASE value.tag = "rec" ->
            Dict([n \in DOMAIN value.vals |-> asdict_inner(value.vals[n])])
      [] value.tag = "list" ->
            List([i \in 1..Len(value.items) |-> asdict_inner(value.items[i])])
      [] value.tag = "dict" ->
            Dict([n \in DOMAIN value.vals |-> asdict_inner(value.vals[n])])
      [] OTHER -> value

\* dataclasses.asdict(core).vals, for a dataclass instance
asdict(core) == asdict_inner(core).vals

TypeError == [type |-> "TypeError", args |-> <<>>]

\* query.result_type(**dataclasses.asdict(core), **field_values): TypeError when
\* core is no dataclass instance, when a keyword is given twice, and when the
\* keywords are not exactly the fields of result_type
compose(result_type, core, field_values) ==
    IF ~IsDataclass(core)
    THEN [raised |-> TRUE, value |-> core]
    ELSE LET kw == asdict(core)
         IN  IF \/ (DOMAIN kw) \cap (DOMAIN field_values) # {}
                \/ (DOMAIN kw) \cup (DOMAIN field_values) # FieldNames(result_type)
             THEN [raised |-> TRUE, value |-> core]
             ELSE [raised |-> FALSE,
                   value |-> Rec(result_type,
                                 [n \in FieldNames(result_type) |->
                                    IF n \in DOMAIN kw THEN kw[n] ELSE field_values[n]])]

\* the list comprehension that ends _add_fields: one record per pair of
\* zip(cores, extra_field_values); the first failing construction raises
compose_all(result_type, cores, extra_field_values) ==
    LET n == IF Len(cores) < Len(extra_field_values)
             THEN Len(cores) ELSE Len(extra_field_values)
        made == [i \in 1..n |-> compose(result_type, cores[i], extra_field_values[i])]
    IN  IF \E i \in 1..n : made[i].raised
        THEN [raised |-> TRUE, value |-> <<>>]
        ELSE [raised |-> FALSE, value |-> [i \in 1..n |-> made[i].value]]

\* one accumulator too few
new_accumulators_short(cores) == [i \in 1..(Len(cores) - 1) |-> EmptyDict]

\* the accumulators of an executor that has fetched before still hold a value
new_accumulators_stale(cores) ==
    [i \in 1..Len(cores) |->
        IF past # <<>> THEN DictSet(EmptyDict, "stale", Scalar(0)) ELSE EmptyDict]

\* extra_field_values = [{} for _ in cores]
new_accumulators(cores) == [i \in 1..Len(cores) |-> EmptyDict]

\* the merge with the values taken from the end: the last parent gets the
\* first value
merge_field_reversed(extra_field_values, name, field_values) ==
    [i \in 1..Len(extra_field_values) |->
        IF i <= Len(field_values)
        THEN DictSet(extra_field_values[i], name,
                     field_values[Len(field_values) + 1 - i])
        ELSE extra_field_values[i]]

\* the merge that gives a parent without a value an empty list
merge_field_padded(extra_field_values, name, field_values) ==
    [i \in 1..Len(extra_field_values) |->
        DictSet(extra_field_values[i], name,
                IF i <= Len(field_values) THEN field_values[i] ELSE List(<<>>))]

\* for field_values, field_value in zip(extra_field_values, field_values):
\*     field_values[field.name] = field_value
merge_field(extra_field_values, name, field_values) ==
    [i \in 1..Len(extra_field_values) |->
        IF i <= Len(field_values)
        THEN DictSet(extra_field_values[i], name, field_values[i])
        ELSE extra_field_values[i]]

\* ---------------------------------------------------------------- the registry

\* @dmq.root_fetcher(from_type, to_type) on a fetcher class, and one instance of it
RootFetcher(name, from_type, to_type) ==
    [name |-> name, from_type |-> from_type, to_type |-> to_type]

\* @dmq.field_fetcher(from_type, to_type, parent_type=...) on a fetcher class, and
\* one instance of it; shape tells what the instance returns per parent: "one"
\* record, "many" (a list of records, or of lists of records) or a "scalar"
\* (a number)
FieldFetcher(name, from_type, to_type, parent_type, shape) ==
    [name |-> name, from_type |-> from_type, to_type |-> to_type,
     parent_type |-> parent_type, shape |-> shape]

PostFetcher == RootFetcher("PostFetcher", "PostQuery", "Post")
OtherPostFetcher == RootFetcher("OtherPostFetcher", "PostQuery", "Post")
DraftFetcher == RootFetcher("DraftFetcher", "DraftPostQuery", "Post")

PostCommentFetcher ==
    FieldFetcher("PostCommentFetcher", "CommentQuery", "Comment", "Post", "many")
OtherCommentFetcher ==
    FieldFetcher("OtherCommentFetcher", "CommentQuery", "Comment", "Post", "many")
CommentAuthorFetcher ==
    FieldFetcher("CommentAuthorFetcher", "UserQuery", "User", "Comment", "one")
PostAuthorFetcher ==
    FieldFetcher("PostAuthorFetcher", "UserQuery", "User", "Post", "one")
CommentReplyFetcher ==
    FieldFetcher("CommentReplyFetcher", "CommentQuery", "Comment", "Comment", "many")
PostCountFetcher ==
    FieldFetcher("PostCountFetcher", "CountQuery", "int", "Post", "scalar")

\* the scan run to its end: the last compatible root fetcher wins
find_root_last(fetchers, query) ==
    LET hits == {i \in 1..Len(fetchers) : IsInstance(query, fetchers[i].from_type)}
    IN  IF hits = {} THEN 0 ELSE CHOOSE i \in hits : \A j \in hits : i >= j

\* a scan that falls back to the first registration when none is compatible
find_root_fallback(fetchers, query) ==
    LET hits == {i \in 1..Len(fetchers) : IsInstance(query, fetchers[i].from_type)}
    IN  IF hits = {}
        THEN (IF fetchers = <<>> THEN 0 ELSE 1)
        ELSE CHOOSE i \in hits : \A j \in hits : i <= j

\* the scan of _fetch_core: the index of the first root fetcher whose from_type
\* the query is an instance of, 0 when the loop ends without one
find_root(fetchers, query) ==
    LET hits == {i \in 1..Len(fetchers) : IsInstance(query, fetchers[i].from_type)}
    IN  IF hits = {} THEN 0 ELSE CHOOSE i \in hits : \A j \in hits : i <= j

\* the scan without the comparison of parent types
find_field_any_parent(fetchers, query, parent_type) ==
    LET hits == {i \in 1..Len(fetchers) : IsInstance(query, fetchers[i].from_type)}
    IN  IF hits = {} THEN 0 ELSE CHOOSE i \in hits : \A j \in hits : i <= j

\* the scan of _fetch_field_core: the index of the first field fetcher whose
\* from_type the query is an instance of and whose parent_type is parent_type
find_field(fetchers, query, parent_type) ==
    LET hits == {i \in 1..Len(fetchers) :
                    /\ IsInstance(query, fetchers[i].from_type)
                    /\ fetchers[i].parent_type = parent_type}
    IN  IF hits = {} THEN 0 ELSE CHOOSE i \in hits : \A j \in hits : i <= j

\* ValueError(f"could not fetch {query}")
root_error(query) == [type |-> "ValueError", args |-> <<"could not fetch", query>>]

\* the message of _fetch_core reused: the parent type is left out
field_error_as_root(query, parent_type) ==
    [type |-> "ValueError", args |-> <<"could not fetch", query>>]

\* ValueError(f"could not fetch {query} for field on {parent_type}")
field_error(query, parent_type) ==
    [type |-> "ValueError",
     args |-> <<"could not fetch", query, "for field on", parent_type>>]

\* an error raised inside a supplied fetcher
fetcher_error(name) == [type |-> "FetcherError", args |-> <<name>>]

\* ---------------------------------------------------------------- what the fetchers return

\* the id of the k-th record of a run that starts at id `start`, wrapping at MaxId
IdAt(start, k) == ((start + k - 2) % MaxId) + 1

\* values of the owner attribute of a Post: a plain value, or an instance of the
\* dataclass Owner
OwnerValues == {Scalar(0), Rec("Owner", [name |-> Scalar(1)])}

\* an instance of a core type, as a fetcher builds it from a row
core_record(type, id, owner) ==
    Rec(type, [n \in CoreNames(type) |-> IF n = "owner" THEN owner ELSE Scalar(id)])

\* `len` records of a type with consecutive ids
Run(type, start, len, owner) ==
    [k \in 1..len |-> core_record(type, IdAt(start, k), owner)]

\* what a root fetcher may return: a list of up to MaxLen records of its to_type
RootReturns(fetcher) ==
    {List(Run(fetcher.to_type, start, len, owner)) :
        start \in 1..MaxId, len \in 0..MaxLen, owner \in OwnerValues}

\* what a list-valued field holds for one parent, by kind: a list of `kind`
\* records (0..MaxLen), or for kind MaxLen + 1 a list of two lists, one record
\* in the first and none in the second; the records have consecutive ids
\* from `first`
ListElem(type, kind, first) ==
    IF kind <= MaxLen
    THEN List(Run(type, first, kind, Scalar(0)))
    ELSE List(<<List(Run(type, first, 1, Scalar(0))), List(<<>>)>>)

\* the number of records in an element of a kind
ElemSize(kind) == IF kind <= MaxLen THEN kind ELSE 1

\* one element per kind, the ids running on from element to element
RECURSIVE ListElems(_, _, _)
ListElems(type, kinds, first) ==
    IF kinds = <<>>
    THEN <<>>
    ELSE <<ListElem(type, Head(kinds), first)>>
         \o ListElems(type, Tail(kinds), first + ElemSize(Head(kinds)))

\* the outer lengths a field fetcher may return for n parents: one value per
\* parent, one too few, or (within MaxLen) one too many
FieldLens(n) == {m \in {n - 1, n, n + 1} : m >= 0 /\ (m <= n \/ m <= MaxLen)}

\* what a field fetcher may return for n parents
FieldReturns(fetcher, n) ==
    IF fetcher.shape = "scalar"
    THEN {List([k \in 1..m |-> Scalar(IdAt(start, k))]) :
             start \in 1..MaxId, m \in FieldLens(n)}
    ELSE IF fetcher.shape = "one"
    THEN {List(Run(fetcher.to_type, start, m, Scalar(0))) :
             start \in 1..MaxId, m \in FieldLens(n)}
    ELSE UNION {{List(ListElems(fetcher.to_type, kinds, start)) :
                    kinds \in [1..m -> 0..(MaxLen + 1)], start \in 1..MaxId} :
                   m \in FieldLens(n)}

\* the executors under study: the registrations handed to Executor(...)
Executors ==
    { [root |-> <<PostFetcher>>, field |-> <<PostCommentFetcher, CommentAuthorFetcher>>],
      [root |-> <<PostFetcher>>, field |-> <<PostCommentFetcher>>],
      [root |-> <<PostFetcher>>, field |-> <<>>],
      [root |-> <<>>, field |-> <<PostCommentFetcher, CommentAuthorFetcher>>],
      [root |-> <<PostFetcher, OtherPostFetcher>>,
       field |-> <<PostCommentFetcher, OtherCommentFetcher>>],
      [root |-> <<PostFetcher, DraftFetcher>>,
       field |-> <<PostAuthorFetcher, CommentAuthorFetcher>>],
      [root |-> <<DraftFetcher, PostFetcher>>,
       field |-> <<PostAuthorFetcher, PostCommentFetcher>>] }

\* no query: fetch has not been called
NoFetch == Query("None", "None")

\* the queries handed to fetch
Queries ==
    { Query("PostQuery", "Post"),
      Query("PostQuery", "PostWithComments"),
      Query("PostQuery", "PostWithAuthoredComments"),
      Query("DraftPostQuery", "Post"),
      Query("DraftPostQuery", "PostWithComments"),
      Query("UserQuery", "User") }

\* ---------------------------------------------------------------- the state machine

NoError == [type |-> "None", args |-> <<>>]

\* how a fetch ended; origin is the function the exception was raised in (the
\* innermost entry of its traceback)
Pending == [kind |-> "none", value |-> <<>>, error |-> NoError, origin |-> "None"]
Returned(value) == [kind |-> "return", value |-> value, error |-> NoError, origin |-> "None"]
Raised(error, origin) == [kind |-> "raise", value |-> <<>>, error |-> error, origin |-> origin]

\* a running _add_fields(cores, query, parent_type=...): idx is the declared
\* field the loop is at, extra its extra_field_values; raw is the `cores` of
\* the _fetch_field that called it (the empty list for the call from fetch)
Frame(cores, q, parent_type, raw) ==
    [cores |-> cores, query |-> q, parent_type |-> parent_type, idx |-> 1,
     extra |-> new_accumulators(cores), raw |-> raw]

\* one fetcher invocation: which registration was called (its index in its
\* list), with what arguments, from which nesting depth of _add_fields (0 for
\* the root fetcher), and how the call ended
Call(kind, index, fetcher, q, parent_type, parents, depth) ==
    [kind |-> kind, index |-> index, name |-> fetcher.name, query |-> q,
     parent_type |-> parent_type, parents |-> parents, depth |-> depth,
     state |-> "pending", result |-> List(<<>>)]

Top == stack[Len(stack)]

LastCall == calls[Len(calls)]

\* the log with its last call ended
EndCall(state, result) ==
    [calls EXCEPT ![Len(calls)] = [@ EXCEPT !.state = state, !.result = result]]

\* Executor(root_fetchers=..., field_fetchers=...)
ExecInit ==
    /\ \E e \in Executors :
          /\ root_fetchers = e.root
          /\ field_fetchers = e.field
    /\ fetched = NoFetch
    /\ pc = "idle"
    /\ stack = <<>>
    /\ calls = <<>>
    /\ outcome = Pending
    /\ past = <<>>

FlatIdle ==
    /\ fl_pc = "off"
    /\ fl_S = List(<<>>)
    /\ fl_R = <<>>
    /\ fl_flat = <<>>
    /\ fl_out = [raised |-> FALSE, value |-> List(<<>>), rest |-> <<>>]

Init == ExecInit /\ FlatIdle

\* fetch(query) up to the call of the root fetcher: the scan of _fetch_core
FetchQuery(q) ==
    /\ pc = "idle"
    /\ LET i == find_root(root_fetchers, q)
       IN  /\ fetched' = q
           /\ IF i = 0
              THEN /\ outcome' = Raised(root_error(q), "_fetch_core")
                   /\ pc' = "done"
                   /\ calls' = calls
              ELSE /\ calls' = Append(calls, Call("root", i, root_fetchers[i], q,
                                                  "None", <<>>, 0))
                   /\ pc' = "root_call"
                   /\ outcome' = outcome
    /\ UNCHANGED <<root_fetchers, field_fetchers, stack>>
    /\ UNCHANGED flat_vars
    /\ UNCHANGED past

\* the root fetcher returns `result`: fetch enters _add_fields
RootFetcherReturnsValue(result) ==
    /\ pc = "root_call"
    /\ calls' = EndCall("returned", result)
    /\ stack' = <<Frame(result.items, LastCall.query,
                         root_fetchers[LastCall.index].to_type, List(<<>>))>>
    /\ pc' = "add_fields"
    /\ UNCHANGED <<root_fetchers, field_fetchers, fetched, outcome>>
    /\ UNCHANGED flat_vars
    /\ UNCHANGED past

\* fetch(query) for any of the queries
Fetch == \E q \in Queries : FetchQuery(q)

\* the root fetcher returns any of its lists of records
RootFetcherReturns ==
    /\ pc = "root_call"
    /\ \E result \in RootReturns(root_fetchers[LastCall.index]) :
          RootFetcherReturnsValue(result)

\* the exception of a fetcher caught and the call made again
FetcherRaisesRetried ==
    /\ pc \in {"root_call", "field_call"}
    /\ Len(calls) < 4
    /\ calls' = Append(EndCall("raised", List(<<>>)), [LastCall EXCEPT !.state = "pending"])
    /\ UNCHANGED <<root_fetchers, field_fetchers, fetched, pc, stack, outcome>>
    /\ UNCHANGED flat_vars
    /\ UNCHANGED past

\* a supplied fetcher raises: the exception unwinds every frame of the fetch
FetcherRaises ==
    /\ pc \in {"root_call", "field_call"}
    /\ calls' = EndCall("raised", List(<<>>))
    /\ outcome' = Raised(fetcher_error(LastCall.name), "fetcher")
    /\ stack' = <<>>
    /\ pc' = "done"
    /\ UNCHANGED <<root_fetchers, field_fetchers, fetched>>
    /\ UNCHANGED flat_vars
    /\ UNCHANGED past

\* the parents handed over with the fields resolved so far
field_parents_augmented(frame) ==
    [i \in 1..Len(frame.cores) |->
        IF IsDataclass(frame.cores[i])
        THEN Rec(frame.cores[i].type,
                 [n \in (DOMAIN frame.cores[i].vals) \cup (DOMAIN frame.extra[i]) |->
                    IF n \in DOMAIN frame.extra[i]
                    THEN frame.extra[i][n]
                    ELSE frame.cores[i].vals[n]])
        ELSE frame.cores[i]]

\* one parent handed over instead of the batch
field_parents_first(frame) == IF frame.cores = <<>> THEN <<>> ELSE <<frame.cores[1]>>

\* parents=cores in the call of _fetch_field: the whole batch of this _add_fields
field_parents(frame) == frame.cores

\* a result type that an enclosing _add_fields is resolving is not resolved
\* again
loop_done_seen(frame) ==
    \/ frame.idx > Len(DeclaredFields(frame.query.result_type))
    \/ /\ frame = Top
       /\ \E d \in 1..(Len(stack) - 1) : stack[d].query.result_type = frame.query.result_type

\* the loop is skipped for an empty batch
loop_done_empty(frame) ==
    \/ frame.idx > Len(DeclaredFields(frame.query.result_type))
    \/ frame.cores = <<>>

\* the for loop of _add_fields has no declared field left
loop_done(frame) == frame.idx > Len(DeclaredFields(frame.query.result_type))

\* raised by the interpreter when the calls nest deeper than its limit
RecursionError == [type |-> "RecursionError", args |-> <<>>]

\* the loop of _add_fields reaches a declared field: _fetch_field, the scan of
\* _fetch_field_core, the call of the field fetcher with parents=cores (the
\* interpreter raises RecursionError when the calls are nested to its limit)
AddFieldsNext ==
    /\ pc = "add_fields"
    /\ ~loop_done(Top)
    /\ LET field_query == DeclaredFields(Top.query.result_type)[Top.idx].query
           i == find_field(field_fetchers, field_query, Top.parent_type)
       IN  IF Len(stack) >= MaxDepth
           THEN /\ outcome' = Raised(RecursionError, "_add_fields")
                /\ pc' = "done"
                /\ stack' = <<>>
                /\ calls' = calls
           ELSE IF i = 0
           THEN /\ outcome' = Raised(field_error(field_query, Top.parent_type), "_fetch_field_core")
                /\ pc' = "done"
                /\ stack' = <<>>
                /\ calls' = calls
           ELSE /\ calls' = Append(calls, Call("field", i, field_fetchers[i], field_query,
                                               Top.parent_type, field_parents(Top),
                                               Len(stack)))
                /\ pc' = "field_call"
                /\ UNCHANGED <<stack, outcome>>
    /\ UNCHANGED <<root_fetchers, field_fetchers, fetched>>
    /\ UNCHANGED flat_vars
    /\ UNCHANGED past

\* the field fetcher returns the raw values `raw`: _fetch_field flattens them
\* and enters _add_fields on the leaves, with the fetcher's to_type as parent
\* type
FieldFetcherReturnsValue(raw) ==
    /\ pc = "field_call"
    /\ calls' = EndCall("returned", raw)
    /\ stack' = Append(stack, Frame(flatten(raw), LastCall.query,
                                    field_fetchers[LastCall.index].to_type, raw))
    /\ pc' = "add_fields"
    /\ UNCHANGED <<root_fetchers, field_fetchers, fetched, outcome>>
    /\ UNCHANGED flat_vars
    /\ UNCHANGED past

\* the field fetcher returns any of its raw values for the parents it got
FieldFetcherReturns ==
    /\ pc = "field_call"
    /\ \E raw \in FieldReturns(field_fetchers[LastCall.index], Len(LastCall.parents)) :
          FieldFetcherReturnsValue(raw)

\* the loop of _add_fields is over (dataclasses.fields raises TypeError before
\* it starts when the result type is no dataclass): the records are composed and returned, to
\* the caller of fetch or to _fetch_field, which unflattens them against its
\* raw values and hands them to the loop of the enclosing _add_fields, which
\* stores them under the field's name
AddFieldsReturn ==
    /\ pc = "add_fields"
    /\ loop_done(Top)
    /\ \E made \in {IF IsDataclassType(Top.query.result_type)
                    THEN compose_all(Top.query.result_type, Top.cores, Top.extra)
                    ELSE [raised |-> TRUE, value |-> <<>>]} :
           IF made.raised
           THEN /\ outcome' = Raised(TypeError, "_add_fields")
                /\ stack' = <<>>
                /\ pc' = "done"
           ELSE IF Len(stack) = 1
           THEN /\ outcome' = Returned(made.value)
                /\ stack' = <<>>
                /\ pc' = "done"
           ELSE \E rebuilt \in {unflatten(Top.raw, made.value)} :
                LET parent == stack[Len(stack) - 1]
                    name == DeclaredFields(parent.query.result_type)[parent.idx].name
                IN  IF rebuilt.raised
                    THEN /\ outcome' = Raised(StopIteration, "unflatten")
                         /\ stack' = <<>>
                         /\ pc' = "done"
                    ELSE /\ stack' = Append(SubSeq(stack, 1, Len(stack) - 2),
                                [parent EXCEPT
                                   !.extra = merge_field(parent.extra, name,
                                                         rebuilt.value.items),
                                   !.idx = parent.idx + 1])
                         /\ pc' = "add_fields"
                         /\ outcome' = outcome
    /\ UNCHANGED <<root_fetchers, field_fetchers, fetched, calls>>
    /\ UNCHANGED flat_vars
    /\ UNCHANGED past

Next ==
    \/ Fetch
    \/ RootFetcherReturns
    \/ FetcherRaises
    \/ AddFieldsNext
    \/ FieldFetcherReturns
    \/ AddFieldsReturn

Spec == Init /\ [][Next]_vars

\* ---------------------------------------------------------------- flatten and unflatten on their own

\* the number of leaves of a nested list
RECURSIVE LeafCount(_)
LeafCount(value) ==
    IF value.tag # "list" THEN 1
    ELSE IF value.items = <<>> THEN 0
    ELSE LeafCount(Head(value.items)) + LeafCount(List(Tail(value.items)))

\* Trees(n, first) are the values of n nodes (a leaf, or a list and what it holds) whose leaves are
\* numbered from `first` in depth-first order; Forests(n, first) the sequences
\* of such values with n nodes in all
RECURSIVE Trees(_, _), Forests(_, _)
Trees(n, first) ==
    IF n = 1
    THEN {Scalar(first), List(<<>>)}
    ELSE {List(f) : f \in Forests(n - 1, first)}

Forests(n, first) ==
    IF n = 0
    THEN {<<>>}
    ELSE UNION {UNION {{<<t>> \o f : f \in Forests(n - k, first + LeafCount(t))} :
                          t \in Trees(k, first)} :
                   k \in 1..n}

\* the raw values a field fetcher may hand to flatten: every nested list of at
\* most MaxNodes nodes
Structures == UNION {{List(f) : f \in Forests(n, 1)} : n \in 0..MaxNodes}

\* replacement results: n fresh values, told apart by position
Replacement(base, n) == [k \in 1..n |-> Scalar(base + k)]

FlatInit ==
    /\ root_fetchers = <<>>
    /\ field_fetchers = <<>>
    /\ fetched = NoFetch
    /\ pc = "off"
    /\ stack = <<>>
    /\ calls = <<>>
    /\ outcome = Pending
    /\ past = <<>>
    /\ fl_pc = "start"
    /\ fl_S \in Structures
    /\ \E base \in {10, 20} :
       \E n \in {m \in {LeafCount(fl_S) - 1, LeafCount(fl_S), LeafCount(fl_S) + 1} : m >= 0} :
          fl_R = Replacement(base, n)
    /\ fl_flat = <<>>
    /\ fl_out = [raised |-> FALSE, value |-> List(<<>>), rest |-> <<>>]

\* flatten(cores)
Flatten ==
    /\ fl_pc = "start"
    /\ fl_flat' = flatten(fl_S)
    /\ fl_pc' = "flattened"
    /\ UNCHANGED <<fl_S, fl_R, fl_out>>
    /\ UNCHANGED exec_vars
    /\ UNCHANGED past

\* unflatten(flatten(cores)): the leaves go back unchanged
UnflattenSame ==
    /\ fl_pc = "flattened"
    /\ fl_out' = unflatten(fl_S, fl_flat)
    /\ fl_pc' = "same"
    /\ UNCHANGED <<fl_S, fl_R, fl_flat>>
    /\ UNCHANGED exec_vars
    /\ UNCHANGED past

\* unflatten(results) for other results, as _add_fields returns them
UnflattenReplaced ==
    /\ fl_pc = "flattened"
    /\ fl_out' = unflatten(fl_S, fl_R)
    /\ fl_pc' = "replaced"
    /\ UNCHANGED <<fl_S, fl_R, fl_flat>>
    /\ UNCHANGED exec_vars
    /\ UNCHANGED past

FlatNext ==
    \/ Flatten
    \/ UnflattenSame
    \/ UnflattenReplaced

FlatSpec == FlatInit /\ [][FlatNext]_vars

\* ---------------------------------------------------------------- properties: nesting

\* the nesting of a value: its lists, with every leaf blanked
RECURSIVE Shape(_)
Shape(value) ==
    IF value.tag = "list"
    THEN List([i \in 1..Len(value.items) |-> Shape(value.items[i])])
    ELSE Scalar(0)

\* the k-th leaf of a value in depth-first order, 1 <= k <= LeafCount(value)
RECURSIVE LeafAt(_, _)
LeafAt(value, k) ==
    IF value.tag # "list"
    THEN value
    ELSE IF k <= LeafCount(Head(value.items))
         THEN LeafAt(Head(value.items), k)
         ELSE LeafAt(List(Tail(value.items)), k - LeafCount(Head(value.items)))

\* the leaves of a value in depth-first order
Leaves(value) == [k \in 1..LeafCount(value) |-> LeafAt(value, k)]

\* C10: unflattening flatten(S) against S gives S again; unflattening a
\* replacement sequence R with as many items as S has leaves gives a structure
\* with the nesting of S (the same lists of the same lengths at every level,
\* empty lists included) whose k-th leaf in depth-first order is R[k].
C10_RoundTrip ==
    /\ fl_pc = "same" =>
          /\ ~fl_out.raised
          /\ fl_out.value = fl_S
    /\ (fl_pc = "replaced" /\ Len(fl_R) = LeafCount(fl_S)) =>
          /\ ~fl_out.raised
          /\ Shape(fl_out.value) = Shape(fl_S)
          /\ LeafCount(fl_out.value) = Len(fl_R)
          /\ \A k \in 1..Len(fl_R) : LeafAt(fl_out.value, k) = fl_R[k]

\* a structure with an empty list, a leaf and a list two levels down has had
\* its two leaves replaced
C10_Witness ==
    /\ fl_pc = "replaced"
    /\ fl_S = List(<<List(<<>>), List(<<Scalar(1), List(<<Scalar(2)>>)>>)>>)
    /\ fl_R = Replacement(10, 2)
    /\ fl_out.value = List(<<List(<<>>), List(<<Scalar(11), List(<<Scalar(12)>>)>>)>>)

\* ---------------------------------------------------------------- properties: lookup and failure

\* the registry a call was looked up in
RegistryOf(call) == IF call.kind = "root" THEN root_fetchers ELSE field_fetchers

\* registration f is compatible with the arguments of a call: the query is an
\* instance of its from_type and, for a field fetcher, its parent type is the
\* call's
Accepts(f, call) ==
    /\ f.from_type \in Mro(call.query.variant)
    /\ call.kind = "field" => f.parent_type = call.parent_type

\* C9: lookup is a scan in registration order and the first compatible
\* registration wins: every fetcher invoked is compatible with its call and no
\* registration before it in its list is, so a later duplicate (or a later
\* registration that matches by subtype) is never invoked.
C9_FirstMatchWins ==
    \A j \in 1..Len(calls) :
        /\ Accepts(RegistryOf(calls[j])[calls[j].index], calls[j])
        /\ \A k \in 1..(calls[j].index - 1) : ~Accepts(RegistryOf(calls[j])[k], calls[j])

\* a fetch of a DraftPostQuery (a subclass of PostQuery) has returned with two
\* compatible root fetchers and two compatible field fetchers registered: the
\* first of each was invoked
C9_Witness ==
    /\ outcome.kind = "return"
    /\ fetched.variant = "DraftPostQuery"
    /\ Len(calls) = 2
    /\ Len(root_fetchers) = 2 /\ Accepts(root_fetchers[2], calls[1])
    /\ Len(field_fetchers) = 2 /\ Accepts(field_fetchers[2], calls[2])
    /\ calls[1].name = "PostFetcher"
    /\ calls[2].name = "PostCommentFetcher"

\* no registered root fetcher accepts the query
NoRootAccepts(q) ==
    \A i \in 1..Len(root_fetchers) : root_fetchers[i].from_type \notin Mro(q.variant)

\* C6: fetching a query whose variant no registered root fetcher accepts ends
\* in the error of the root lookup, which carries the query: no fetcher is
\* invoked and no list, not even an empty one, is returned.
C6_NoRootFetcher ==
    (fetched # NoFetch /\ NoRootAccepts(fetched)) =>
        /\ pc = "done"
        /\ outcome.kind = "raise"
        /\ outcome.origin = "_fetch_core"
        /\ outcome.error.type = "ValueError"
        /\ outcome.error.args = <<"could not fetch", fetched>>
        /\ outcome.value = <<>>
        /\ calls = <<>>

\* a UserQuery was fetched from an executor whose root fetchers accept only
\* post queries
C6_Witness ==
    /\ fetched = Query("UserQuery", "User")
    /\ root_fetchers # <<>>
    /\ pc = "done"
    /\ outcome.kind = "raise"

\* the lookup that failed when _fetch_field_core raised: the declared field
\* query of the level the fetch had reached and the parent type of that level
\* (after one call the field of the fetched result type on the root fetcher's
\* to_type, after more the field of the last field's result type on the last
\* field fetcher's to_type)
FailedLookup ==
    IF Len(calls) = 1
    THEN [query |-> DeclaredFields(fetched.result_type)[1].query,
          parent_type |-> root_fetchers[calls[1].index].to_type]
    ELSE [query |-> DeclaredFields(calls[Len(calls)].query.result_type)[1].query,
          parent_type |-> field_fetchers[calls[Len(calls)].index].to_type]

\* C7 as stated: a missing field fetcher ends the fetch in an error of a kind
\* other than that of a missing root fetcher, carrying the sub-query and the
\* parent type.
C7_DistinctKind ==
    outcome.origin = "_fetch_field_core" =>
        /\ outcome.kind = "raise"
        /\ outcome.error.type # root_error(fetched).type
        /\ outcome.error.args[2] = FailedLookup.query
        /\ outcome.error.args[4] = FailedLookup.parent_type

\* C7 amended: a missing field fetcher, at the top level and at every nested
\* level, ends the fetch in a ValueError, the kind of error a missing root
\* fetcher gives; its message carries the sub-query and the parent type,
\* which is all that tells it from the error of a missing root fetcher.
C7_SameKindOtherMessage ==
    outcome.origin = "_fetch_field_core" =>
        /\ pc = "done"
        /\ outcome.kind = "raise"
        /\ outcome.error.type = "ValueError"
        /\ outcome.error.type = root_error(fetched).type
        /\ outcome.error.args =
              <<"could not fetch", FailedLookup.query, "for field on", FailedLookup.parent_type>>
        /\ \A q \in Queries \cup {FailedLookup.query} : outcome.error # root_error(q)
        /\ \A i \in 1..Len(field_fetchers) :
              ~(/\ field_fetchers[i].from_type \in Mro(FailedLookup.query.variant)
                /\ field_fetchers[i].parent_type = FailedLookup.parent_type)

\* the author field of the comments of a post finds no field fetcher: the
\* lookup fails one level down, after two fetcher calls
C7_Witness ==
    /\ outcome.origin = "_fetch_field_core"
    /\ Len(calls) = 2
    /\ outcome.error.args = <<"could not fetch", Query("UserQuery", "User"),
                              "for field on", "Comment">>

\* C8: a failure (no root fetcher, no field fetcher at some depth, an error
\* raised by a fetcher) ends the fetch at once: the caller gets that error as
\* it was raised, no fetcher is invoked after the failing step, the failing
\* call is not made again and no other fetcher is tried in its place, and no
\* composed record is returned.
C8_FailureAborts ==
    /\ outcome.kind = "raise" =>
          /\ pc = "done"
          /\ stack = <<>>
          /\ outcome.value = <<>>
          /\ ~ENABLED Next
          /\ \A j \in 1..Len(calls) : calls[j].state # "pending"
    /\ \A j \in 1..Len(calls) :
          calls[j].state = "raised" =>
             /\ j = Len(calls)
             /\ outcome.kind = "raise"
             /\ outcome.origin = "fetcher"
             /\ outcome.error = [type |-> "FetcherError", args |-> <<calls[j].name>>]
    /\ outcome.origin = "_fetch_core" => calls = <<>>
    /\ outcome.origin = "_fetch_field_core" =>
          /\ calls # <<>>
          /\ \A j \in 1..Len(calls) : calls[j].state = "returned"

\* the fetcher of the author field raised after the root fetcher and the
\* fetcher of the comments field had returned records
C8_Witness ==
    /\ pc = "done"
    /\ Len(calls) = 3
    /\ calls[1].result.items # <<>>
    /\ calls[2].result.items # <<>>
    /\ calls[3].state = "raised"
    /\ outcome.error = fetcher_error("CommentAuthorFetcher")

\* ---------------------------------------------------------------- properties: the composed records

\* what the root fetcher returned
RootCores == calls[1].result.items

\* C1 as stated: a fetch that returns gives one composed record per core
\* record of the root fetcher, the i-th carrying the attributes of the i-th
\* core record.
C1_OneRecordPerCore ==
    outcome.kind = "return" =>
        /\ Len(outcome.value) = Len(RootCores)
        /\ \A i \in 1..Len(RootCores) :
              \A a \in DOMAIN RootCores[i].vals :
                  outcome.value[i].vals[a] = RootCores[i].vals[a]

\* C5 as stated: for a result type without declared fields no field fetcher
\* is invoked and what fetch returns is what the root fetcher returned.
C5_IdentityPassthrough ==
    (outcome.kind = "return" /\ DeclaredFields(fetched.result_type) = <<>>) =>
        /\ Len(calls) = 1
        /\ outcome.value = RootCores

\* the call that produced the parents of call j: the last call before it made
\* one level up
Producer(j) ==
    CHOOSE k \in 1..(j - 1) :
        /\ calls[k].depth = calls[j].depth - 1
        /\ \A m \in (k + 1)..(j - 1) : calls[m].depth # calls[j].depth - 1

\* the fetcher calls a fetch of a result type makes when nothing fails: one
\* for each declared field, and those of the field's own result type
RECURSIVE DeclCount(_)
DeclCount(type) ==
    LET fs == DeclaredFields(type)
        RECURSIVE Sum(_)
        Sum(i) == IF i = 0 THEN 0
                  ELSE 1 + DeclCount(fs[i].query.result_type) + Sum(i - 1)
    IN  Sum(Len(fs))

\* C2: the field fetcher of a declared field is invoked once for the batch,
\* not once per parent: its parents argument is the list of all records of
\* the level in order, as the fetch before produced them (the root fetcher's
\* list, or the leaves of the field fetcher's raw values one level up), and a
\* fetch that returns has made one call per declared field and level.
C2_Batching ==
    /\ \A j \in 2..Len(calls) :
          /\ calls[j].kind = "field"
          /\ calls[j].depth >= 1
          /\ calls[j].parents = Leaves(calls[Producer(j)].result)
          /\ \A k \in 2..(j - 1) :
                ~(/\ calls[k].depth = calls[j].depth
                  /\ calls[k].query = calls[j].query
                  /\ Producer(k) = Producer(j))
    /\ outcome.kind = "return" => Len(calls) = 1 + DeclCount(fetched.result_type)

\* a fetch of posts with their comments has returned two posts after one call
\* of the comments fetcher with both posts
C2_Witness ==
    /\ outcome.kind = "return"
    /\ fetched.result_type = "PostWithComments"
    /\ Len(calls) = 2
    /\ Len(RootCores) = 2
    /\ calls[2].parents = RootCores
    /\ Len(outcome.value) = 2

\* the leaves of the elements of a list, element after element
RECURSIVE ConcatChildren(_)
ConcatChildren(elements) ==
    IF elements = <<>>
    THEN <<>>
    ELSE Leaves(Head(elements)) \o ConcatChildren(Tail(elements))

\* the number of leaves in the elements before the i-th
LeavesBefore(elements, i) == LeafCount(List(SubSeq(elements, 1, i - 1)))

\* a returned call gave one value per parent
Aligned(call) == Len(call.result.items) = Len(call.parents)

\* C3: for posts with comments with authors a fetch that returns has made one
\* field fetcher call per level; the author fetcher got as parents the
\* children of all posts, concatenated in the order of the posts; and each
\* post holds its own children, nested as the comments fetcher returned them,
\* each child with the author the author fetcher returned at its position.
\* When all three fetchers return one value per parent the fetch returns.
C3_NestedComposition ==
    fetched.result_type = "PostWithAuthoredComments" =>
        /\ outcome.kind = "return" =>
              /\ Len(calls) = 3
              /\ calls[2].depth = 1 /\ calls[2].query.variant = "CommentQuery"
              /\ calls[3].depth = 2 /\ calls[3].query.variant = "UserQuery"
              /\ calls[2].parents = RootCores
              /\ calls[3].parents = ConcatChildren(calls[2].result.items)
              /\ \A i \in 1..Len(outcome.value) :
                    LET raw == calls[2].result.items
                        kids == outcome.value[i].vals.comments
                    IN  /\ Shape(kids) = Shape(raw[i])
                        /\ \A k \in 1..LeafCount(raw[i]) :
                              /\ LeafAt(kids, k).type = "CommentWithAuthor"
                              /\ LeafAt(kids, k).vals.id = LeafAt(raw[i], k).vals.id
                              /\ LeafAt(kids, k).vals.author =
                                    calls[3].result.items[LeavesBefore(raw, i) + k]
        /\ (/\ pc = "done"
            /\ Len(calls) = 3
            /\ \A j \in 1..3 : calls[j].state = "returned"
            /\ Aligned(calls[2])
            /\ Aligned(calls[3])) => outcome.kind = "return"

\* two posts, the first without comments and the second with two, whose
\* authors differ
C3_Witness ==
    /\ outcome.kind = "return"
    /\ fetched.result_type = "PostWithAuthoredComments"
    /\ Len(outcome.value) = 2
    /\ outcome.value[1].vals.comments = List(<<>>)
    /\ Len(outcome.value[2].vals.comments.items) = 2
    /\ \A k \in 1..2 : IsDataclass(outcome.value[2].vals.comments.items[k])
    /\ outcome.value[2].vals.comments.items[1].vals.author
          # outcome.value[2].vals.comments.items[2].vals.author
    /\ Len(calls[3].parents) = 2

\* the call made for the t-th declared field of the fetched result type
TopCall(t) ==
    calls[CHOOSE j \in 1..Len(calls) :
            /\ calls[j].depth = 1
            /\ Cardinality({k \in 1..j : calls[k].depth = 1}) = t]

\* C4: field values stay aligned to their parents: in a fetch that returns,
\* the value under a declared field of the i-th record has the nesting of the
\* i-th element the field fetcher returned for the batch, and its k-th leaf is
\* the record composed from the k-th leaf of that element (of the field's
\* result type, with that leaf's id and with every field of that type),
\* whatever the other elements hold.
C4_IndexAligned ==
    outcome.kind = "return" =>
        \A t \in 1..Len(DeclaredFields(fetched.result_type)) :
            LET f == DeclaredFields(fetched.result_type)[t]
                raw == TopCall(t).result.items
            IN  \A i \in 1..Len(outcome.value) :
                    LET v == outcome.value[i].vals[f.name]
                    IN  /\ i <= Len(raw)
                        /\ Shape(v) = Shape(raw[i])
                        /\ \A k \in 1..LeafCount(raw[i]) :
                              /\ LeafAt(v, k).type = f.query.result_type
                              /\ DOMAIN LeafAt(v, k).vals = FieldNames(f.query.result_type)
                              /\ LeafAt(v, k).vals.id = LeafAt(raw[i], k).vals.id

\* the first post got one comment and the second a list of two lists (a
\* comment in the first, none in the second); the two comments differ
C4_Witness ==
    /\ outcome.kind = "return"
    /\ fetched.result_type = "PostWithComments"
    /\ Len(outcome.value) = 2
    /\ Len(outcome.value[1].vals.comments.items) = 1
    /\ outcome.value[1].vals.comments.items[1].tag = "rec"
    /\ Len(outcome.value[2].vals.comments.items) = 2
    /\ outcome.value[2].vals.comments.items[2] = List(<<>>)
    /\ outcome.value[2].vals.comments.items[1].items[1]
          # outcome.value[1].vals.comments.items[1]

\* ---------------------------------------------------------------- three posts, three comments

\* ids of the records of the scenario
ScenarioIds == 1..(MaxId + 1)

\* three ids, and three ids that differ
Triples == [1..3 -> ScenarioIds]
DistinctTriples == {t \in Triples : t[1] # t[2] /\ t[1] # t[3] /\ t[2] # t[3]}

\* the executor of test_can_add_subfields_to_fields
ScenarioInit ==
    /\ root_fetchers = <<PostFetcher>>
    /\ field_fetchers = <<PostCommentFetcher, CommentAuthorFetcher>>
    /\ fetched = NoFetch
    /\ pc = "idle"
    /\ stack = <<>>
    /\ calls = <<>>
    /\ outcome = Pending
    /\ past = <<>>
    /\ FlatIdle

\* executor.fetch(PostWithComments.query()), the comments with their authors
ScenarioFetch == FetchQuery(Query("PostQuery", "PostWithAuthoredComments"))

\* the root fetcher returns three posts [p1, p2, p3]
ScenarioPostsReturn ==
    \E p \in DistinctTriples, owner \in OwnerValues :
        RootFetcherReturnsValue(List([k \in 1..3 |-> core_record("Post", p[k], owner)]))

\* the comments fetcher returns [[], [c1, c2], [c3]]
ScenarioCommentsReturn ==
    /\ pc = "field_call"
    /\ LastCall.name = "PostCommentFetcher"
    /\ \E c \in DistinctTriples :
          FieldFetcherReturnsValue(
              List(<<List(<<>>),
                     List(<<core_record("Comment", c[1], Scalar(0)),
                            core_record("Comment", c[2], Scalar(0))>>),
                     List(<<core_record("Comment", c[3], Scalar(0))>>)>>))

\* the author fetcher returns [a1, a2, a3]
ScenarioAuthorsReturn ==
    /\ pc = "field_call"
    /\ LastCall.name = "CommentAuthorFetcher"
    /\ \E a \in Triples :
          FieldFetcherReturnsValue(List([k \in 1..3 |-> core_record("User", a[k], Scalar(0))]))

ScenarioNext ==
    \/ ScenarioFetch
    \/ ScenarioPostsReturn
    \/ ScenarioCommentsReturn
    \/ ScenarioAuthorsReturn
    \/ FetcherRaises
    \/ AddFieldsNext
    \/ AddFieldsReturn

ScenarioSpec == ScenarioInit /\ [][ScenarioNext]_vars

\* the records of the scenario as the fetchers returned them
ScenarioPost(k) == calls[1].result.items[k]
ScenarioComment(k) == Leaves(calls[2].result)[k]
ScenarioAuthor(k) == calls[3].result.items[k]

\* comment c with its author a
Authored(c, a) == Rec("CommentWithAuthor", [id |-> c.vals.id, author |-> a])

\* C11: with root output [p1, p2, p3], the comments fetcher returning
\* [[], [c1, c2], [c3]] and the author fetcher returning [a1, a2, a3], the
\* comments fetcher is invoked once with parents [p1, p2, p3], the author
\* fetcher once with parents [c1, c2, c3], and fetch returns p1 with comments
\* [], p2 with comments [c1(author=a1), c2(author=a2)] and p3 with comments
\* [c3(author=a3)] (a record is told by its id).
C11_Scenario ==
    /\ Cardinality({j \in 1..Len(calls) : calls[j].name = "PostCommentFetcher"}) <= 1
    /\ Cardinality({j \in 1..Len(calls) : calls[j].name = "CommentAuthorFetcher"}) <= 1
    /\ Len(calls) >= 2 => calls[2].parents = <<ScenarioPost(1), ScenarioPost(2), ScenarioPost(3)>>
    /\ Len(calls) >= 3 =>
          calls[3].parents = <<ScenarioComment(1), ScenarioComment(2), ScenarioComment(3)>>
    /\ (pc = "done" /\ Len(calls) = 3 /\ calls[3].state = "returned") =>
          /\ outcome.kind = "return"
          /\ Len(outcome.value) = 3
          /\ \A k \in 1..3 :
                /\ outcome.value[k].type = "PostWithAuthoredComments"
                /\ outcome.value[k].vals.id = ScenarioPost(k).vals.id
          /\ outcome.value[1].vals.comments = List(<<>>)
          /\ outcome.value[2].vals.comments =
                List(<<Authored(ScenarioComment(1), ScenarioAuthor(1)),
                       Authored(ScenarioComment(2), ScenarioAuthor(2))>>)
          /\ outcome.value[3].vals.comments =
                List(<<Authored(ScenarioComment(3), ScenarioAuthor(3))>>)

\* the fetch of the scenario has returned, with three authors that differ
C11_Witness ==
    /\ outcome.kind = "return"
    /\ Len(calls) = 3
    /\ calls[3].result.items[1] # calls[3].result.items[2]
    /\ calls[3].result.items[2] # calls[3].result.items[3]
    /\ calls[3].result.items[1] # calls[3].result.items[3]
    /\ Len(outcome.value[2].vals.comments.items) = 2

\* ---------------------------------------------------------------- the shapes of field values

\* an executor with a field fetcher for each shape of value: a number, one
\* record, lists of records
ShapeInit ==
    /\ root_fetchers = <<PostFetcher>>
    /\ field_fetchers = <<PostCountFetcher, PostAuthorFetcher, PostCommentFetcher,
                          CommentAuthorFetcher>>
    /\ fetched = NoFetch
    /\ pc = "idle"
    /\ stack = <<>>
    /\ calls = <<>>
    /\ outcome = Pending
    /\ past = <<>>
    /\ FlatIdle

\* result types with one declared field, by the shape of its value
ShapeTypes ==
    [scalar |-> {"PostWithCount", "PostWithTally"},
     one |-> {"PostWithAuthor"},
     many |-> {"PostWithComments", "PostWithAuthoredComments"}]

ShapeFetch ==
    \E type \in ShapeTypes.scalar \cup ShapeTypes.one \cup ShapeTypes.many :
        FetchQuery(Query("PostQuery", type))

ShapeNext ==
    \/ ShapeFetch
    \/ RootFetcherReturns
    \/ FetcherRaises
    \/ AddFieldsNext
    \/ FieldFetcherReturns
    \/ AddFieldsReturn

ShapeSpec == ShapeInit /\ [][ShapeNext]_vars

\* the fetchers were called, returned, and each gave one value per parent
AllAligned ==
    /\ calls # <<>>
    /\ \A j \in 1..Len(calls) : calls[j].state = "returned"
    /\ \A j \in 2..Len(calls) : Aligned(calls[j])

\* the fetch is over and every field fetcher its result type asks for was called
FetchedAll ==
    /\ pc = "done"
    /\ Len(calls) = 1 + DeclCount(fetched.result_type)

\* C12: whether the field fetcher returns per parent a scalar, a single record
\* or a nested list of records, with one value per parent fetch completes
\* without error and the value (its records composed to the field's result
\* type) is stored under the field's name on the parent of its position.
C12_AnyShape ==
    (FetchedAll /\ AllAligned) =>
        /\ outcome.kind = "return"
        /\ \A i \in 1..Len(outcome.value) :
              LET name == DeclaredFields(fetched.result_type)[1].name
                  raw == calls[2].result.items[i]
                  v == outcome.value[i].vals[name]
              IN  /\ Shape(v) = Shape(raw)
                  /\ \A k \in 1..LeafCount(raw) :
                        IF IsDataclass(LeafAt(raw, k))
                        THEN LeafAt(v, k).vals.id = LeafAt(raw, k).vals.id
                        ELSE LeafAt(v, k) = LeafAt(raw, k)

\* ---------------------------------------------------------------- the parent type of a lookup

\* the to_type of the fetcher that produced the parents of the j-th call
ProducedType(j) ==
    IF calls[j].depth = 1
    THEN root_fetchers[calls[1].index].to_type
    ELSE field_fetchers[calls[Producer(j)].index].to_type

\* field fetchers that accept the variant of the query of the failed lookup
\* but are registered for another parent type
OtherParentFetchers ==
    {i \in 1..Len(field_fetchers) :
        /\ IsInstance(FailedLookup.query, field_fetchers[i].from_type)
        /\ field_fetchers[i].parent_type # FailedLookup.parent_type}

\* C13: a field fetcher is called only if it accepts the sub-query's variant
\* and is registered for the current parent type, which is the to_type of the
\* root fetcher (top level) or of the field fetcher (nested levels) that
\* produced the parents; when only fetchers for other parent types accept the
\* variant none of them is called and the lookup fails.
C13_ParentTypeMatch ==
    /\ \A j \in 1..Len(calls) :
          calls[j].kind = "field" =>
              /\ IsInstance(calls[j].query, field_fetchers[calls[j].index].from_type)
              /\ field_fetchers[calls[j].index].parent_type = calls[j].parent_type
              /\ calls[j].parent_type = ProducedType(j)
    /\ outcome.origin = "_fetch_field_core" =>
          /\ find_field(field_fetchers, FailedLookup.query, FailedLookup.parent_type) = 0
          /\ \A i \in OtherParentFetchers :
                \A j \in 1..Len(calls) :
                    ~(calls[j].kind = "field" /\ calls[j].index = i
                      /\ calls[j].query = FailedLookup.query)

\* the author of a comment is looked up with only a fetcher of authors of
\* posts registered: it is skipped and the fetch fails
C13_Witness ==
    /\ outcome.origin = "_fetch_field_core"
    /\ FailedLookup.parent_type = "Comment"
    /\ OtherParentFetchers # {}
    /\ Len(calls) = 2

\* ---------------------------------------------------------------- several fetches on one executor

\* result types with two declared fields, one of them with a field of its
\* own, in both declaration orders
SessionTypes == {"PostFull", "PostFullSwapped"}

SessionInit ==
    /\ root_fetchers = <<PostFetcher>>
    /\ field_fetchers = <<PostCommentFetcher, CommentAuthorFetcher, PostAuthorFetcher>>
    /\ fetched = NoFetch
    /\ pc = "idle"
    /\ stack = <<>>
    /\ calls = <<>>
    /\ outcome = Pending
    /\ past = <<>>
    /\ FlatIdle

\* the fetcher calls of the finished fetches and of the running one
RECURSIVE PastCalls(_)
PastCalls(k) == IF k = 0 THEN <<>> ELSE PastCalls(k - 1) \o past[k].calls

AllCalls == PastCalls(Len(past)) \o calls

\* what the fetcher of the pending call returned before for the same
\* arguments: the fetchers of a session answer by their arguments alone (of
\* the query its variant, as the fetchers of the example, which never look at
\* result_type)
Replay ==
    {AllCalls[j].result : j \in {i \in 1..Len(AllCalls) :
        /\ AllCalls[i].state = "returned"
        /\ AllCalls[i].name = LastCall.name
        /\ AllCalls[i].query.variant = LastCall.query.variant
        /\ AllCalls[i].parents = LastCall.parents}}

\* the answers open to the fetcher of the pending call
Answers(family) == IF Replay # {} THEN Replay ELSE family

\* what the root fetcher of a session may return: the posts 1..len
SessionPosts == {List(Run("Post", 1, len, Scalar(0))) : len \in 0..MaxLen}

\* what the field fetcher of the pending call may return in a session: one
\* value for each of its parents, a record or a list of up to MaxLen records
SessionValues ==
    LET fetcher == field_fetchers[LastCall.index]
        n == Len(LastCall.parents)
    IN  IF fetcher.shape = "one"
        THEN {List(Run(fetcher.to_type, start, n, Scalar(0))) : start \in 1..MaxId}
        ELSE {List(ListElems(fetcher.to_type, kinds, 1)) : kinds \in [1..n -> 0..MaxLen]}

SessionFetch == \E type \in SessionTypes : FetchQuery(Query("PostQuery", type))

SessionRootReturns ==
    /\ pc = "root_call"
    /\ \E result \in Answers(SessionPosts) : RootFetcherReturnsValue(result)

SessionFieldReturns ==
    /\ pc = "field_call"
    /\ \E raw \in Answers(SessionValues) : FieldFetcherReturnsValue(raw)

\* fetch is over and its caller calls fetch a second time
FetchAgain ==
    /\ pc = "done"
    /\ past = <<>>
    /\ past' = Append(past, [query |-> fetched, calls |-> calls, outcome |-> outcome])
    /\ fetched' = NoFetch
    /\ pc' = "idle"
    /\ calls' = <<>>
    /\ outcome' = Pending
    /\ UNCHANGED <<root_fetchers, field_fetchers, stack>>
    /\ UNCHANGED flat_vars

SessionNext ==
    \/ SessionFetch
    \/ SessionRootReturns
    \/ SessionFieldReturns
    \/ FetcherRaises
    \/ AddFieldsNext
    \/ AddFieldsReturn
    \/ FetchAgain

SessionSpec == SessionInit /\ [][SessionNext]_vars

\* the field fetcher calls a result type asks for, read off its declaration:
\* for each field with a query, in the order of dataclasses.fields, the call
\* for the field and then the calls for the fields of its result type
RECURSIVE ExpectedCalls(_, _)
ExpectedCalls(type, depth) ==
    LET fs == SelectSeq(Fields(type), HasQuery)
        RECURSIVE From(_)
        From(i) ==
            IF i > Len(fs)
            THEN <<>>
            ELSE <<[query |-> fs[i].query, depth |-> depth]>>
                 \o ExpectedCalls(fs[i].query.result_type, depth + 1)
                 \o From(i + 1)
    IN  From(1)

\* C14: the fetcher calls of a fetch come in a fixed order: the root fetcher
\* first, then the declared fields in descriptor order, the call for a field
\* followed by the calls for that field's own fields before the call for the
\* next sibling field; a fetch that returns has made exactly one call per
\* field declaration per nesting level, however many records there are.
C14_CallOrder ==
    calls # <<>> =>
        LET expected == ExpectedCalls(fetched.result_type, 1)
        IN  /\ calls[1].kind = "root"
            /\ calls[1].depth = 0
            /\ Len(calls) - 1 <= Len(expected)
            /\ \A j \in 2..Len(calls) :
                  /\ calls[j].kind = "field"
                  /\ calls[j].query = expected[j - 1].query
                  /\ calls[j].depth = expected[j - 1].depth
            /\ outcome.kind = "return" => Len(calls) = 1 + Len(expected)

\* posts with comments and author: the author of the posts was fetched last,
\* after the authors of the three comments of the two posts
C14_Witness ==
    /\ outcome.kind = "return"
    /\ fetched.result_type = "PostFull"
    /\ Len(calls) = 4
    /\ calls[2].name = "PostCommentFetcher"
    /\ calls[3].name = "CommentAuthorFetcher"
    /\ calls[4].name = "PostAuthorFetcher"
    /\ Len(calls[1].result.items) = 2
    /\ LeafCount(calls[2].result) = 3

\* ---------------------------------------------------------------- the order of flatten

\* C15: flatten gives the leaves of its input in depth-first left-to-right
\* order (the leaves of the structures are numbered in that order): a list
\* gives the concatenation of what its elements give, an empty list nothing,
\* a value that is no list itself; no list is left in the flat sequence,
\* however deep it was.
C15_FlattenOrder ==
    fl_pc # "start" =>
        /\ Len(fl_flat) = LeafCount(fl_S)
        /\ \A k \in 1..Len(fl_flat) :
              /\ fl_flat[k] = Scalar(k)
              /\ ~IsList(fl_flat[k])
              /\ flatten(fl_flat[k]) = <<fl_flat[k]>>
        /\ fl_flat = ConcatChildren(fl_S.items)
        /\ \A i \in 1..Len(fl_S.items) :
              /\ fl_S.items[i] = List(<<>>) => flatten(fl_S.items[i]) = <<>>
              /\ SubSeq(fl_flat, LeavesBefore(fl_S.items, i) + 1,
                        LeavesBefore(fl_S.items, i + 1)) = flatten(fl_S.items[i])

\* a leaf two lists down, next to an empty list, and a leaf after them
C15_Witness ==
    /\ fl_pc = "flattened"
    /\ fl_S = List(<<List(<<List(<<Scalar(1)>>), List(<<>>)>>), Scalar(2)>>)
    /\ fl_flat = <<Scalar(1), Scalar(2)>>

\* ---------------------------------------------------------------- leaves in, leaves out

\* the innermost _add_fields was called by _fetch_field and has ended its loop
Returning ==
    /\ pc = "add_fields"
    /\ Len(stack) > 1
    /\ Top.idx > Len(DeclaredFields(Top.query.result_type))

\* C16: at every nesting level of every fetch the records _add_fields hands
\* to unflatten are as many as the leaves flatten took from the same raw
\* values, and unflatten takes every one of them: it never finds its
\* iterator exhausted and leaves no item over, whatever the fetchers of the
\* fields below returned.
C16_LeavesMatch ==
    /\ outcome.origin # "unflatten"
    /\ Returning =>
          LET made == compose_all(Top.query.result_type, Top.cores, Top.extra)
              rebuilt == unflatten(Top.raw, made.value)
          IN  /\ Len(Top.cores) = LeafCount(Top.raw)
              /\ ~made.raised =>
                    /\ Len(made.value) = LeafCount(Top.raw)
                    /\ ~rebuilt.raised
                    /\ rebuilt.rest = <<>>
                    /\ LeafCount(rebuilt.value) = Len(made.value)

\* the comments are about to go back to unflatten after the fetcher of their
\* authors returned one author more than there are comments
C16_Witness ==
    /\ Returning
    /\ Len(stack) = 2
    /\ Len(calls) = 3
    /\ calls[3].state = "returned"
    /\ Len(calls[3].result.items) > Len(calls[3].parents)
    /\ Len(Top.cores) >= 1
    /\ ~compose_all(Top.query.result_type, Top.cores, Top.extra).raised

\* ---------------------------------------------------------------- the order of the declared fields

\* the two fetches of the session were of the same query variant with the
\* two result types that declare the same fields in opposite orders, and
\* both returned
BothOrders ==
    /\ past # <<>>
    /\ outcome.kind = "return"
    /\ past[1].outcome.kind = "return"
    /\ past[1].query.variant = fetched.variant
    /\ {past[1].query.result_type, fetched.result_type} = SessionTypes

\* the names of the declared fields of a type in declaration order
DeclaredNames(type) ==
    LET fs == SelectSeq(Fields(type), HasQuery)
    IN  [i \in 1..Len(fs) |-> fs[i].name]

\* C17: with fetchers that answer by their arguments alone, a result type
\* with the same two fields declared in the other order gives for every
\* parent and every field name the same field value; each composed record is
\* of the fetched result type, whose fields are in declaration order.
C17_OrderIndependent ==
    BothOrders =>
        /\ Len(outcome.value) = Len(past[1].outcome.value)
        /\ \A i \in 1..Len(outcome.value) :
              /\ \A name \in {"comments", "author"} :
                    outcome.value[i].vals[name] = past[1].outcome.value[i].vals[name]
              /\ outcome.value[i].type = fetched.result_type
              /\ past[1].outcome.value[i].type = past[1].query.result_type
              /\ DOMAIN outcome.value[i].vals = FieldNames(fetched.result_type)
        /\ DeclaredNames("PostFull") = <<"comments", "author">>
        /\ DeclaredNames("PostFullSwapped") = <<"author", "comments">>
        /\ \A j \in 2..Len(calls) :
              \E k \in 2..Len(past[1].calls) :
                  /\ past[1].calls[k].name = calls[j].name
                  /\ past[1].calls[k].parents = calls[j].parents
                  /\ past[1].calls[k].result = calls[j].result

\* two posts fetched with comments before author and then with author before
\* comments; the second post has two comments
C17_Witness ==
    /\ BothOrders
    /\ past[1].query.result_type = "PostFull"
    /\ fetched.result_type = "PostFullSwapped"
    /\ Len(outcome.value) = 2
    /\ Len(outcome.value[2].vals.comments.items) = 2
    /\ outcome.value[1].vals.author # outcome.value[2].vals.author

\* ---------------------------------------------------------------- deep and cyclic declarations

\* result types by their declaration graph: PostWithThread reaches
\* CommentWithReplies, whose field has CommentWithReplies as result type
AcyclicTypes == {"Post", "PostWithComments", "PostWithAuthoredComments"}
CyclicTypes == {"PostWithThread"}

DeepInit ==
    /\ root_fetchers = <<PostFetcher>>
    /\ field_fetchers = <<PostCommentFetcher, CommentReplyFetcher, CommentAuthorFetcher>>
    /\ fetched = NoFetch
    /\ pc = "idle"
    /\ stack = <<>>
    /\ calls = <<>>
    /\ outcome = Pending
    /\ past = <<>>
    /\ FlatIdle

DeepFetch == \E type \in AcyclicTypes \cup CyclicTypes : FetchQuery(Query("PostQuery", type))

DeepRootReturns ==
    /\ pc = "root_call"
    /\ \E result \in SessionPosts : RootFetcherReturnsValue(result)

\* what the field fetcher of the pending call may return: one record per
\* parent, or for every parent a list of the same number of records
DeepValues ==
    LET fetcher == field_fetchers[LastCall.index]
        n == Len(LastCall.parents)
    IN  IF fetcher.shape = "one"
        THEN {List(Run(fetcher.to_type, start, n, Scalar(0))) : start \in 1..MaxId}
        ELSE {List(ListElems(fetcher.to_type, [i \in 1..n |-> kind], 1)) : kind \in 0..MaxLen}

DeepFieldReturns ==
    /\ pc = "field_call"
    /\ \E raw \in DeepValues : FieldFetcherReturnsValue(raw)

DeepNext ==
    \/ DeepFetch
    \/ DeepRootReturns
    \/ DeepFieldReturns
    \/ FetcherRaises
    \/ AddFieldsNext
    \/ AddFieldsReturn

\* every fetcher called returns or raises, and the executor goes on
DeepSpec == DeepInit /\ [][DeepNext]_vars /\ WF_vars(DeepNext)

\* one fetcher call per level, each with all the leaves of the level before
LevelByLevel ==
    \A j \in 2..Len(calls) :
        /\ calls[j].depth = j - 1
        /\ calls[j].parents =
              (IF j = 2 THEN calls[1].result.items ELSE Leaves(calls[j - 1].result))

\* a fetch of a cyclic declaration gives no result: level after level it
\* looks up and calls the fetcher of the field again, empty batch or not,
\* and ends only when a fetcher raises or the calls are nested to the limit
CycleGoesOn ==
    fetched.result_type \in CyclicTypes =>
        /\ outcome.kind # "return"
        /\ pc = "add_fields" =>
              /\ ~loop_done(Top)
              /\ find_field(field_fetchers, DeclaredFields(Top.query.result_type)[Top.idx].query,
                            Top.parent_type) # 0
              /\ Len(calls) = Len(stack)
        /\ pc = "done" =>
              /\ outcome.origin \in {"fetcher", "_add_fields"}
              /\ outcome.origin = "_add_fields" =>
                    /\ outcome.error = RecursionError
                    /\ Len(calls) = MaxDepth

\* a fetch of an acyclic declaration never nests to the limit
AcyclicIsShallow ==
    fetched.result_type \in AcyclicTypes =>
        /\ Len(stack) <= 1 + DeclCount(fetched.result_type)
        /\ outcome.error # RecursionError

\* C18: for an acyclic declaration and fetchers that return, fetch ends, each
\* level's fetcher called once with all leaves of the level before; for a
\* declaration with a cycle fetch never returns a result: it goes on calling
\* the field fetcher level after level, also with empty batches (until the
\* interpreter's recursion limit ends it with RecursionError).
C18_Termination ==
    /\ [](LevelByLevel /\ CycleGoesOn /\ AcyclicIsShallow)
    /\ (fetched.result_type \in AcyclicTypes) ~> (pc = "done")

\* a cyclic declaration fetched down to the limit, the last batches empty
C18_Witness ==
    /\ fetched.result_type \in CyclicTypes
    /\ outcome.error = RecursionError
    /\ Len(calls) = MaxDepth
    /\ Len(calls[2].parents) = 2
    /\ calls[MaxDepth - 1].parents = <<>>
    /\ calls[MaxDepth].parents = <<>>

\* ---------------------------------------------------------------- what a fetch leaves behind

\* the fetcher call that the d-th running _add_fields got its cores from
FrameCall(d) ==
    calls[CHOOSE j \in 1..Len(calls) :
            /\ calls[j].depth = d - 1
            /\ \A m \in (j + 1)..Len(calls) : calls[m].depth # d - 1]

\* every running _add_fields still holds the list its fetcher returned, item
\* for item, and one accumulator for each item
ListsIntact ==
    \A d \in 1..Len(stack) :
        /\ FrameCall(d).state = "returned"
        /\ stack[d].cores = (IF d = 1 THEN FrameCall(d).result.items
                                      ELSE flatten(FrameCall(d).result))
        /\ d > 1 => stack[d].raw = FrameCall(d).result
        /\ Len(stack[d].extra) = Len(stack[d].cores)

\* the second fetch asked what the first asked and its fetchers were called
\* and answered as in the first
SameFetchAgain ==
    /\ past # <<>>
    /\ pc = "done"
    /\ fetched = past[1].query
    /\ calls = past[1].calls

\* no step of a fetch writes to the registry, to what a fetcher has returned or
\* to the cores of a running _add_fields
NothingWritten ==
    /\ root_fetchers' = root_fetchers
    /\ field_fetchers' = field_fetchers
    /\ \A j \in 1..Len(calls) :
          calls[j].state = "returned" =>
              IF Len(calls') >= j
              THEN calls'[j] = calls[j]
              ELSE past' # <<>> /\ past'[Len(past')].calls[j] = calls[j]
    /\ \A d \in 1..Len(stack) :
          Len(stack') >= d =>
              /\ stack'[d].cores = stack[d].cores
              /\ stack'[d].raw = stack[d].raw
    /\ \A k \in 1..Len(past) : past'[k] = past[k]

\* C19: a fetch, returning or raising, leaves both fetcher lists as they were
\* registered and the lists its fetchers returned as they were returned, and
\* nothing of it is kept: a second fetch of the same query whose fetchers are
\* called and answer as in the first ends as the first did, with an equal
\* result or the same exception.
C19_NothingKept ==
    /\ [](/\ root_fetchers = <<PostFetcher>>
          /\ field_fetchers = <<PostCommentFetcher, CommentAuthorFetcher, PostAuthorFetcher>>
          /\ ListsIntact
          /\ SameFetchAgain => outcome = past[1].outcome)
    /\ [][NothingWritten]_vars

\* the same posts with comments and authors fetched twice
C19_Witness ==
    /\ SameFetchAgain
    /\ outcome.kind = "return"
    /\ Len(outcome.value) = 2
    /\ Len(outcome.value[1].vals.comments.items) = 2
    /\ outcome = past[1].outcome

\* ---------------------------------------------------------------- empty batches

\* the registry has a fetcher for every field a result type declares on a
\* parent type, and for the fields of the result types below
RECURSIVE Resolvable(_, _)
Resolvable(type, parent_type) ==
    \A i \in 1..Len(DeclaredFields(type)) :
        LET f == DeclaredFields(type)[i]
            k == find_field(field_fetchers, f.query, parent_type)
        IN  /\ k # 0
            /\ Resolvable(f.query.result_type, field_fetchers[k].to_type)

\* what the level of the j-th call had to hand over as parents
Batch(j) ==
    IF calls[j].depth = 1 THEN calls[1].result.items ELSE flatten(calls[Producer(j)].result)

\* C20: an empty batch is fetched for like any other: a field fetcher whose
\* level has no record (the root fetcher returned none, or the raw values one
\* level up have no leaf) is called with no parents; a fetch returns only
\* after one call for every field declared at every level, so never when the
\* registry lacks the fetcher of one of these fields, however empty the
\* batches are.
C20_EmptyNotSkipped ==
    calls # <<>> =>
        /\ \A j \in 2..Len(calls) : Batch(j) = <<>> => calls[j].parents = <<>>
        /\ outcome.kind = "return" =>
              /\ Len(calls) = 1 + Len(ExpectedCalls(fetched.result_type, 1))
              /\ \A j \in 2..Len(calls) :
                    /\ calls[j].state = "returned"
                    /\ calls[j].query = ExpectedCalls(fetched.result_type, 1)[j - 1].query
              /\ Resolvable(fetched.result_type, root_fetchers[calls[1].index].to_type)
        /\ (/\ pc = "done"
            /\ calls[1].state = "returned"
            /\ \A j \in 2..Len(calls) : calls[j].state = "returned"
            /\ ~Resolvable(fetched.result_type, root_fetchers[calls[1].index].to_type)) =>
              /\ outcome.kind = "raise"
              /\ outcome.origin \in {"_fetch_field_core", "_add_fields", "unflatten"}

\* two posts without comments: the fetcher of the authors of comments was
\* called with no parents, and the posts came back with their empty lists
C20_Witness ==
    /\ outcome.kind = "return"
    /\ fetched.result_type = "PostWithAuthoredComments"
    /\ Len(calls) = 3
    /\ Len(calls[1].result.items) = 2
    /\ calls[2].result = List(<<List(<<>>), List(<<>>)>>)
    /\ calls[3].parents = <<>>
    /\ calls[3].state = "returned"
    /\ Len(outcome.value) = 2
    /\ outcome.value[1].vals.comments = List(<<>>)

\* ---------------------------------------------------------------- results of another length

\* a field fetcher returned fewer values than it got parents, or more
Short(j) ==
    /\ calls[j].kind = "field"
    /\ calls[j].state = "returned"
    /\ Len(calls[j].result.items) < Len(calls[j].parents)

Long(j) ==
    /\ calls[j].kind = "field"
    /\ calls[j].state = "returned"
    /\ Len(calls[j].result.items) > Len(calls[j].parents)

\* every fetcher called has returned
AllReturned == \A j \in 1..Len(calls) : calls[j].state = "returned"

\* a value holds only records of a result type with every field of the type,
\* the values of the declared fields being such values of their result types
RECURSIVE Complete(_, _)
Complete(value, type) ==
    IF value.tag = "list"
    THEN \A i \in 1..Len(value.items) : Complete(value.items[i], type)
    ELSE /\ value.tag = "rec"
         /\ value.type = type
         /\ DOMAIN value.vals = FieldNames(type)
         /\ \A t \in 1..Len(DeclaredFields(type)) :
               LET f == DeclaredFields(type)[t]
               IN  Complete(value.vals[f.name], f.query.result_type)

\* C21: the length of a field fetcher's result is not checked against the
\* batch.  A fetch whose fetchers all returned, none of them too few values,
\* and whose registry has every fetcher needed returns, surplus values or
\* not: one record per root record, the value of a declared field of the
\* i-th record built from the i-th value returned, the values after the last
\* parent in no record.  A fetch with a result too short never returns: when
\* nothing else fails first it ends with the TypeError of the composition.
\* Every record a fetch returns, at every level, has all fields of its type.
C21_LengthUnchecked ==
    calls # <<>> =>
        /\ outcome.kind = "return" =>
              /\ \A j \in 1..Len(calls) : ~Short(j)
              /\ Len(outcome.value) = Len(calls[1].result.items)
              /\ \A i \in 1..Len(outcome.value) :
                    Complete(outcome.value[i], fetched.result_type)
              /\ \A t \in 1..Len(DeclaredFields(fetched.result_type)) :
                    \A i \in 1..Len(outcome.value) :
                        LET f == DeclaredFields(fetched.result_type)[t]
                        IN  /\ i <= Len(TopCall(t).result.items)
                            /\ Shape(outcome.value[i].vals[f.name])
                                  = Shape(TopCall(t).result.items[i])
        /\ (pc = "done" /\ \E j \in 1..Len(calls) : Short(j)) =>
              /\ outcome.kind = "raise"
              /\ (AllReturned /\ Resolvable(fetched.result_type,
                                            root_fetchers[calls[1].index].to_type)) =>
                    outcome = Raised(TypeError, "_add_fields")
        /\ (/\ pc = "done"
            /\ AllReturned
            /\ \A j \in 1..Len(calls) : ~Short(j)
            /\ Resolvable(fetched.result_type, root_fetchers[calls[1].index].to_type)) =>
              outcome.kind = "return"

\* one post and two lists of comments returned for it: the post came back
\* with the first list, the comment of the second list in no record
C21_Witness ==
    /\ outcome.kind = "return"
    /\ fetched.result_type = "PostWithComments"
    /\ Len(calls) = 2
    /\ Long(2)
    /\ Len(calls[2].parents) = 1
    /\ LeafCount(calls[2].result.items[2]) = 1
    /\ Len(outcome.value) = 1
    /\ Shape(outcome.value[1].vals.comments) = Shape(calls[2].result.items[1])

====
